---- MODULE Spec2Model ----
(***************************************************************************)
(* Model of Fig6/analysis.py: the spike-train analysis pipeline            *)
(* (infer_frequency, infer_amplitude, discriminate, create_param_range,    *)
(* the two sweep drivers and discrimination_combinations).                 *)
(*                                                                         *)
(* Numbers.  A floating-point value is a record: a finite value is the     *)
(* reduced fraction n/d, and the three non-finite values are NaN, +inf     *)
(* and -inf.  Python's None is the record None.  All arithmetic of the     *)
(* model is exact; rounding is not modelled.                               *)
(***************************************************************************)
EXTENDS Integers, Sequences, FiniteSets

VARIABLES
    pc,      \* position in the function being executed
    args,    \* its arguments
    ret,     \* its return value
    model,   \* the Model object the sweep drivers are given
    locals,  \* the local variables of a sweep driver
    hist     \* history: the calls made on the model; per run, the state it started from
             \* (time, recorded spikes, swept parameter) and the spikes it produced

vars == <<pc, args, ret, model, locals, hist>>

\* ------------------------------------------------------------------ bounds
MaxVal == 1
MaxLen == 2
MaxLevel == 1
MaxX == 5
MaxRes == 3
MaxSpikes == 3
MaxTime == 9
IsiSpan == 10
PeakSpan == 4
MaxGridLevels == 2
GridMaxLen == 1
SweepMax == 1
NeuronsN == 2

\* ------------------------------------------------------------------ floats
RECURSIVE GCD(_, _)
GCD(m, n) == IF n = 0 THEN m ELSE GCD(n, m % n)

Abs(n) == IF n < 0 THEN -n ELSE n

Num(n, d) ==
    LET g == GCD(Abs(n), d)
    IN  [t |-> "num", n |-> n \div g, d |-> d \div g]

NaN == [t |-> "nan", n |-> 0, d |-> 1]
PosInf == [t |-> "inf", n |-> 1, d |-> 1]
NegInf == [t |-> "inf", n |-> -1, d |-> 1]
None == [t |-> "none", n |-> 0, d |-> 1]

isfinite(x) == x.t = "num"

\* x < y and x == y on finite values
Less(x, y) == x.n * y.d < y.n * x.d

Zero == Num(0, 1)

\* the pure functions use no model
NoModel == model = None /\ locals = None /\ hist = None

\* ------------------------------------------------------------------ helpers
RECURSIVE SeqSum(_)
SeqSum(s) == IF s = <<>> THEN 0 ELSE Head(s) + SeqSum(Tail(s))

SelectIdx(s, Keep(_)) ==
    LET F[i \in 0 .. Len(s)] ==
            IF i = 0 THEN <<>>
            ELSE IF Keep(i) THEN Append(F[i - 1], s[i]) ELSE F[i - 1]
    IN  F[Len(s)]

\* np.diff
diff(s) == [i \in 1 .. Len(s) - 1 |-> s[i + 1] - s[i]]

\* --------------------------------------------------- sklearn.metrics (as called)
\* The distinct scores in decreasing order: the thresholds of the curve.
RECURSIVE SortDesc(_)
SortDesc(S) ==
    IF S = {} THEN <<>>
    ELSE LET m == CHOOSE x \in S : \A y \in S : ~Less(x, y)
         IN  <<m>> \o SortDesc(S \ {m})

CountGE(y_true, y_score, label, thr) ==
    Cardinality({i \in 1 .. Len(y_score) : y_true[i] = label /\ ~Less(y_score[i], thr)})

\* metrics.roc_curve(y_true, y_score, pos_label=1): the cumulative counts at each
\* distinct threshold, collinear points dropped, the origin prepended, and each
\* rate an all-NaN array when its class is absent (a warning, not an exception).
\* An empty input raises.
roc_curve(y_true, y_score) ==
    IF Len(y_score) = 0 THEN [raised |-> TRUE]
    ELSE
    LET thr == SortDesc({y_score[i] : i \in 1 .. Len(y_score)})
        tps0 == [k \in 1 .. Len(thr) |-> CountGE(y_true, y_score, 1, thr[k])]
        fps0 == [k \in 1 .. Len(thr) |-> CountGE(y_true, y_score, 0, thr[k])]
        n == Len(thr)
        Optimal(k) ==
            \/ n <= 2
            \/ k = 1
            \/ k = n
            \/ fps0[k + 1] - 2 * fps0[k] + fps0[k - 1] # 0
            \/ tps0[k + 1] - 2 * tps0[k] + tps0[k - 1] # 0
        tps == <<0>> \o SelectIdx(tps0, Optimal)
        fps == <<0>> \o SelectIdx(fps0, Optimal)
    IN  [raised |-> FALSE,
         fpr |-> [nan |-> fps[Len(fps)] <= 0, num |-> fps, den |-> fps[Len(fps)]],
         tpr |-> [nan |-> tps[Len(tps)] <= 0, num |-> tps, den |-> tps[Len(tps)]]]

auc_rectangle(x, y) ==
    IF Len(x.num) < 2 THEN [raised |-> TRUE]
    ELSE IF x.nan \/ y.nan THEN [raised |-> FALSE, v |-> NaN]
    ELSE [raised |-> FALSE,
          v |-> Num(SeqSum([i \in 1 .. Len(x.num) - 1 |->
                               (x.num[i + 1] - x.num[i]) * y.num[i]]),
                    x.den * y.den)]

\* metrics.auc(x, y): the trapezoidal area; fewer than two points raise, a curve
\* that is neither increasing nor decreasing raises, NaN coordinates give NaN.
auc(x, y) ==
    IF Len(x.num) < 2 THEN [raised |-> TRUE]
    ELSE IF x.nan \/ y.nan THEN [raised |-> FALSE, v |-> NaN]
    ELSE
    LET dx == diff(x.num)
        anyneg == \E i \in 1 .. Len(dx) : dx[i] < 0
        allnonpos == \A i \in 1 .. Len(dx) : dx[i] <= 0
        direction == IF anyneg THEN -1 ELSE 1
        area2 == SeqSum([i \in 1 .. Len(dx) |-> dx[i] * (y.num[i] + y.num[i + 1])])
    IN  IF anyneg /\ ~allnonpos THEN [raised |-> TRUE]
        ELSE [raised |-> FALSE, v |-> Num(direction * area2, 2 * x.den * y.den)]

\* ------------------------------------------------------------- discriminate
\* d[~np.isfinite(d)] = 0 ; d = d[np.isfinite(d)].tolist()
clean_drops(d) == SelectSeq(d, isfinite)

clean(d) ==
    LET zeroed == [i \in 1 .. Len(d) |-> IF isfinite(d[i]) THEN d[i] ELSE Zero]
    IN  SelectSeq(zeroed, isfinite)

swap_never(a, b) == FALSE

\* if a > b: d1, d2 = d2, d1
swap(a, b) == a > b

negatives_unswapped(d1, d2, a, b) == clean(d1)

\* lines 73-84: the canonical order, then both collections cleaned
negatives(d1, d2, a, b) == clean(IF swap(a, b) THEN d2 ELSE d1)
positives(d1, d2, a, b) == clean(IF swap(a, b) THEN d1 ELSE d2)

\* score = d1 + d2
score(d1, d2, a, b) == negatives(d1, d2, a, b) \o positives(d1, d2, a, b)

\* true_value = [0] * len(d1) + [1] * len(d2)
true_value(d1, d2, a, b) ==
    [i \in 1 .. Len(negatives(d1, d2, a, b)) |-> 0]
        \o [i \in 1 .. Len(positives(d1, d2, a, b)) |-> 1]

\* try: roc_curve, auc, return auc; except: return 0
discriminate(d1, d2, a, b) ==
    LET roc == roc_curve(true_value(d1, d2, a, b), score(d1, d2, a, b))
        area == auc(roc.fpr, roc.tpr)
    IN  IF roc.raised THEN Zero
        ELSE IF area.raised THEN Zero
        ELSE area.v

\* ------------------------------------------------- inputs of the pure functions
Finite == {Num(v, 1) : v \in 0 .. MaxVal}
Float == Finite \cup {NaN, PosInf, NegInf}

SeqsUpTo(S, n) == UNION {[1 .. k -> S] : k \in 0 .. n}

Levels == 0 .. MaxLevel

InitDiscriminate ==
    /\ pc = "call"
    /\ args \in [fn : {"discriminate"}, d1 : SeqsUpTo(Float, MaxLen),
                 d2 : SeqsUpTo(Float, MaxLen), a : Levels, b : Levels]
    /\ ret = None
    /\ NoModel

CallDiscriminate ==
    /\ pc = "call"
    /\ args.fn = "discriminate"
    /\ ret' = discriminate(args.d1, args.d2, args.a, args.b)
    /\ pc' = "done"
    /\ UNCHANGED <<args, model, locals, hist>>

SpecDiscriminate == InitDiscriminate /\ [][CallDiscriminate]_vars

\* -------------------------------------------------- properties of discriminate
Called == pc = "done" /\ args.fn = "discriminate"

\* C1 (as stated): for all d1, d2, a, b, a == b included, discriminate(d1, d2, a, b)
\* returns the same value as discriminate(d2, d1, b, a).
C1_SwapInvariantAlways ==
    Called => ret = discriminate(args.d2, args.d1, args.b, args.a)

\* C1 (amended): for ground-truth values a # b, discriminate(d1, d2, a, b) and
\* discriminate(d2, d1, b, a) return the same result.
C1_SwapInvariantDistinct ==
    (Called /\ args.a # args.b)
        => ret = discriminate(args.d2, args.d1, args.b, args.a)

C1_Witness ==
    /\ Called
    /\ args.a > args.b
    /\ args.d1 = <<Num(1, 1)>>
    /\ args.d2 = <<Num(0, 1)>>
    /\ ret = Num(1, 1)

\* C3: discriminate returns 0 (not NaN, not an error) whenever the ROC/AUC
\* computation is degenerate, in particular when d1 or d2 (or both) is empty.
C3_DegenerateIsZero ==
    (Called /\ (args.d1 = <<>> \/ args.d2 = <<>>)) => ret = Zero

ReplaceNonFinite(d) == [i \in 1 .. Len(d) |-> IF d[i].t = "num" THEN d[i] ELSE Zero]

CountLabel(labels, l) == Cardinality({i \in 1 .. Len(labels) : labels[i] = l})

\* C4: every non-finite element of d1 and d2 is replaced by 0 and kept: the number
\* of label-0 (label-1) scores is the length of the collection passed first
\* (second) after the canonical swap, and the result is that of discriminate on
\* the collections with each non-finite element written as 0.
C4_NonFiniteBecomesZero ==
    Called =>
        LET first == IF args.a > args.b THEN args.d2 ELSE args.d1
            second == IF args.a > args.b THEN args.d1 ELSE args.d2
            labels == true_value(args.d1, args.d2, args.a, args.b)
        IN  /\ CountLabel(labels, 0) = Len(first)
            /\ CountLabel(labels, 1) = Len(second)
            /\ score(args.d1, args.d2, args.a, args.b)
                   = ReplaceNonFinite(first) \o ReplaceNonFinite(second)
            /\ ret = discriminate(ReplaceNonFinite(args.d1), ReplaceNonFinite(args.d2),
                                  args.a, args.b)

C4_Witness ==
    /\ Called
    /\ args.d1 = <<NaN, PosInf>>
    /\ args.d2 = <<Num(1, 1), NegInf>>
    /\ args.a < args.b
    /\ ret = Num(3, 4)

AllFinite(d) == \A i \in 1 .. Len(d) : d[i].t = "num"

Pairs(d1, d2, R(_, _)) ==
    Cardinality({p \in (1 .. Len(d1)) \X (1 .. Len(d2)) : R(d1[p[1]], d2[p[2]])})

\* C5: for non-empty collections of finite values and a <= b the result is the
\* fraction of pairs (x in d1, y in d2) with x < y plus half the fraction with
\* x == y; it lies in [0, 1], is 1/2 when all values are equal and 1 when every
\* value of d2 exceeds every value of d1.
C5_PairFraction ==
    (/\ Called
     /\ args.a <= args.b
     /\ args.d1 # <<>> /\ args.d2 # <<>>
     /\ AllFinite(args.d1) /\ AllFinite(args.d2))
        =>
        LET lt == Pairs(args.d1, args.d2, LAMBDA x, y : Less(x, y))
            eq == Pairs(args.d1, args.d2, LAMBDA x, y : x = y)
            all == Len(args.d1) * Len(args.d2)
        IN  /\ ret = Num(2 * lt + eq, 2 * all)
            /\ ret.t = "num" /\ 0 <= ret.n /\ ret.n <= ret.d
            /\ eq = all => ret = Num(1, 2)
            /\ lt = all => ret = Num(1, 1)

C5_Witness ==
    /\ Called
    /\ args.a <= args.b
    /\ args.d1 = <<Num(0, 1), Num(1, 1)>>
    /\ args.d2 = <<Num(1, 1), Num(1, 1)>>
    /\ ret = Num(3, 4)

\* ------------------------------------------------------- create_param_range
\* np.arange(start, stop, step) for step > 0: ceil((stop - start) / step)
\* elements start, start + step, ...
arange(start, stop, step) ==
    LET n == IF stop <= start THEN 0 ELSE (stop - start + step - 1) \div step
    IN  [k \in 1 .. n |-> start + (k - 1) * step]

\* return np.arange(x0, x1 + res, res)
create_param_range(x0, x1, res) == arange(x0, x1 + res, res)

InitRange ==
    /\ pc = "call"
    /\ args \in [fn : {"create_param_range"}, x0 : 0 .. MaxX, x1 : 0 .. MaxX,
                 res : 1 .. MaxRes]
    /\ ret = None
    /\ NoModel

CallRange ==
    /\ pc = "call"
    /\ args.fn = "create_param_range"
    /\ ret' = create_param_range(args.x0, args.x1, args.res)
    /\ pc' = "done"
    /\ UNCHANGED <<args, model, locals, hist>>

SpecRange == InitRange /\ [][CallRange]_vars

\* C2: for x0 <= x1 and res > 0 the result is x0, x0 + res, x0 + 2*res, ..., no
\* element exceeds x1, and x1 is an element whenever x1 - x0 is a multiple of res.
C2_RangeWithinUpperBound ==
    (pc = "done" /\ args.fn = "create_param_range" /\ args.x0 <= args.x1)
        => /\ \A k \in 1 .. Len(ret) : ret[k] = args.x0 + (k - 1) * args.res
           /\ \A k \in 1 .. Len(ret) : ret[k] <= args.x1
           /\ (args.x1 - args.x0) % args.res = 0
                  => \E k \in 1 .. Len(ret) : ret[k] = args.x1

\* ----------------------------------------------------------- infer_frequency
\* gaussian(x, mu, sig) in fixed point: 1000 / (sqrt(2 pi) sig) exp(-((x - mu) / sig)^2 / 2)
\* rounded to an integer, at integer distances |x - mu|, for sig = 1 and
\* sig = 2; beyond the table the value rounds to 0.
GaussTable(sig) ==
    IF sig = Num(1, 1) THEN <<399, 242, 54, 4>>
    ELSE <<199, 176, 121, 65, 27, 9, 2>>

gaussian(x, mu, sig) ==
    LET dist == Abs(x - mu)
        tab == GaussTable(sig)
    IN  IF dist < Len(tab) THEN tab[dist + 1] ELSE 0

\* np.sum(np.vstack([gaussian(bins, c, sig) for c in centres]), axis=0):
\* gaussian raises on sig = None, np.vstack raises on an empty list.
kernel_sum(bins, centres, sig) ==
    IF centres = <<>> \/ sig = None THEN [raised |-> TRUE]
    ELSE [raised |-> FALSE,
          v |-> [k \in 1 .. Len(bins) |->
                    SeqSum([i \in 1 .. Len(centres) |-> gaussian(bins[k], centres[i], sig)])]]

RECURSIVE SortAsc(_)
SortAsc(S) ==
    IF S = {} THEN <<>>
    ELSE LET m == CHOOSE x \in S : \A y \in S : x <= y
         IN  <<m>> \o SortAsc(S \ {m})

\* scipy's local maxima: a sample or a flat stretch (its middle, rounded down)
\* with a strictly lower sample on each side; the two ends are never peaks.
\* Positions are indices into x, from 1.
local_maxima(x) ==
    LET n == Len(x)
        Plateau(l, r) ==
            /\ l <= r
            /\ x[l - 1] < x[l]
            /\ x[r + 1] < x[l]
            /\ \A k \in l .. r : x[k] = x[l]
    IN  SortAsc({((q[1] + q[2] - 2) \div 2) + 1 :
                    q \in {w \in (2 .. n - 1) \X (2 .. n - 1) : Plateau(w[1], w[2])}})

SetMin(S) == CHOOSE m \in S : \A y \in S : m <= y
SetMax(S) == CHOOSE m \in S : \A y \in S : m >= y

\* scipy's peak prominence: the peak's height above the higher of the two
\* lowest points between it and the nearest higher sample on each side.
prominence(x, p) ==
    LET n == Len(x)
        higherL == {i \in 1 .. p - 1 : x[i] > x[p]}
        higherR == {i \in p + 1 .. n : x[i] > x[p]}
        lo == IF higherL = {} THEN 1 ELSE SetMax(higherL) + 1
        hi == IF higherR = {} THEN n ELSE SetMin(higherR) - 1
        left_min == SetMin({x[i] : i \in lo .. p})
        right_min == SetMin({x[i] : i \in p .. hi})
    IN  x[p] - (IF left_min > right_min THEN left_min ELSE right_min)

\* find_peaks(isi_hist_g, prominence=prom) on the density x / total: an
\* all-NaN density (total = 0) has no peaks; prom = None filters nothing.
find_peaks(x, total, prom) ==
    IF total = 0 THEN <<>>
    ELSE IF prom = None THEN local_maxima(x)
    ELSE SelectSeq(local_maxima(x),
                   LAMBDA p : prominence(x, p) * prom.d >= prom.n * total)

argmax_last(x) == SetMax({k \in 1 .. Len(x) : \A j \in 1 .. Len(x) : x[j] <= x[k]})

\* np.argmax: the first position of the maximum (from 1)
argmax(x) == SetMin({k \in 1 .. Len(x) : \A j \in 1 .. Len(x) : x[j] <= x[k]})

Thousand == 1000

\* 1000 / position in floating point: a zero divisor gives inf, not an exception
frequency_of(position) == IF position = 0 THEN PosInf ELSE Num(Thousand, position)

isi_bin(res) == arange(0, IsiSpan, res)
peak_loc_bins(time_step) == arange(0, PeakSpan, time_step)

\* lines 36-40: the ISI density before normalisation
isi_hist_g(spike_times, t1, res) == kernel_sum(isi_bin(res), diff(spike_times), t1)

\* lines 42-43: the differences between the positions of the detected peaks
pk_location_diffs(spike_times, t1, res, prom) ==
    LET density == isi_hist_g(spike_times, t1, res).v
        pks == find_peaks(density, SeqSum(density), prom)
        bins == isi_bin(res)
    IN  diff([k \in 1 .. Len(pks) |-> bins[pks[k]]])

\* lines 45-46: the second density
peak_hist_g(spike_times, t1, t2, res, prom, time_step) ==
    kernel_sum(peak_loc_bins(time_step), pk_location_diffs(spike_times, t1, res, prom), t2)

\* the body of the try block
infer_frequency_body(spike_times, t1, t2, res, prom, time_step) ==
    IF isi_hist_g(spike_times, t1, res).raised THEN [raised |-> TRUE]
    ELSE LET second == peak_hist_g(spike_times, t1, t2, res, prom, time_step)
         IN  IF second.raised THEN [raised |-> TRUE]
             ELSE [raised |-> FALSE,
                   v |-> frequency_of(peak_loc_bins(time_step)[argmax(second.v)])]

Raised == [t |-> "raised", n |-> 0, d |-> 1]

infer_frequency_no_except(spike_times, t1, t2, res, prom, time_step) ==
    LET r == infer_frequency_body(spike_times, t1, t2, res, prom, time_step)
    IN  IF r.raised THEN Raised ELSE r.v

\* try: ... except: return np.nan
infer_frequency(spike_times, t1, t2, res, prom, time_step) ==
    LET r == infer_frequency_body(spike_times, t1, t2, res, prom, time_step)
    IN  IF r.raised THEN NaN ELSE r.v

SortedSeqs(n, tmax) ==
    {s \in SeqsUpTo(0 .. tmax, n) : \A i \in 1 .. Len(s) - 1 : s[i] <= s[i + 1]}

Sigmas == {None, Num(1, 1), Num(2, 1)}
Prominences == {None, Num(1, 10), Num(1, 2)}

InitInfer ==
    /\ pc = "call"
    /\ args \in [fn : {"infer_frequency"}, spike_times : SortedSeqs(MaxSpikes, MaxTime),
                 t1 : Sigmas, t2 : Sigmas, prom : Prominences, res : {1}, time_step : {1}]
    /\ ret = None
    /\ NoModel

CallInfer ==
    /\ pc = "call"
    /\ args.fn = "infer_frequency"
    /\ ret' = infer_frequency(args.spike_times, args.t1, args.t2, args.res, args.prom,
                              args.time_step)
    /\ pc' = "done"
    /\ UNCHANGED <<args, model, locals, hist>>

SpecInfer == InitInfer /\ [][CallInfer]_vars

\* C8: infer_frequency never raises; on an internal failure (fewer than two
\* spikes, fewer than two detected peaks, t1 or t2 left as None) it returns NaN,
\* and in every other case it returns 1000 divided by the position of the first
\* maximum of the second density (+inf, by floating-point division, when that
\* position is 0).
C8_NaNOnFailureElseFrequency ==
    (pc = "done" /\ args.fn = "infer_frequency") =>
        LET failure ==
                \/ Len(args.spike_times) < 2
                \/ args.t1 = None
                \/ pk_location_diffs(args.spike_times, args.t1, args.res, args.prom) = <<>>
                \/ args.t2 = None
            density == peak_hist_g(args.spike_times, args.t1, args.t2, args.res,
                                   args.prom, args.time_step).v
            bins == peak_loc_bins(args.time_step)
        IN  /\ ret # Raised
            /\ failure => ret = NaN
            /\ ~failure =>
                   \E k \in 1 .. Len(bins) :
                       /\ \A j \in 1 .. Len(bins) : density[j] <= density[k]
                       /\ \A j \in 1 .. k - 1 : density[j] < density[k]
                       /\ bins[k] # 0 => ret = Num(1000, bins[k])
                       /\ bins[k] = 0 => ret = PosInf

C8_Witness ==
    /\ pc = "done"
    /\ args.fn = "infer_frequency"
    /\ args.spike_times = <<0, 2, 8>>
    /\ args.prom = Num(1, 10)
    /\ ret = Num(1000, 3)

\* ------------------------------------------------ discrimination_combinations
\* np.meshgrid(x, y): xx[i][j] = x[j], yy[i][j] = y[i]
meshgrid(x, y) ==
    [xx |-> [i \in 1 .. Len(y) |-> [j \in 1 .. Len(x) |-> x[j]]],
     yy |-> [i \in 1 .. Len(y) |-> [j \in 1 .. Len(x) |-> y[i]]]]

\* np.ravel: row by row
ravel(m) ==
    LET rows == Len(m)
        cols == IF rows = 0 THEN 0 ELSE Len(m[1])
    IN  [k \in 1 .. rows * cols |-> m[((k - 1) \div cols) + 1][((k - 1) % cols) + 1]]

\* z.reshape(shape): row by row
reshape(z, rows, cols) ==
    [i \in 1 .. rows |-> [j \in 1 .. cols |-> z[(i - 1) * cols + j]]]

\* levels: the keys of infered_values in the dictionary's order
discrimination_combinations(levels, infered_values) ==
    LET grid == meshgrid(levels, levels)
        xs == ravel(grid.xx)
        ys == ravel(grid.yy)
        z == [k \in 1 .. Len(xs) |->
                 discriminate(infered_values[xs[k]], infered_values[ys[k]], xs[k], ys[k])]
    IN  [xx |-> grid.xx, yy |-> grid.yy, zz |-> reshape(z, Len(levels), Len(levels))]

GridKeys == 0 .. MaxGridLevels - 1
GridVals == {Num(0, 1), Num(1, 1), Num(2, 1), NaN}

KeyOrders == {s \in SeqsUpTo(GridKeys, MaxGridLevels) :
                 \A i, j \in 1 .. Len(s) : i # j => s[i] # s[j]}

InitGrid ==
    /\ pc = "call"
    /\ \E levels \in KeyOrders :
          \E iv \in [{levels[i] : i \in 1 .. Len(levels)} -> SeqsUpTo(GridVals, GridMaxLen)] :
              args = [fn |-> "discrimination_combinations", levels |-> levels,
                      infered_values |-> iv]
    /\ ret = None
    /\ NoModel

CallGrid ==
    /\ pc = "call"
    /\ args.fn = "discrimination_combinations"
    /\ ret' = discrimination_combinations(args.levels, args.infered_values)
    /\ pc' = "done"
    /\ UNCHANGED <<args, model, locals, hist>>

SpecGrid == InitGrid /\ [][CallGrid]_vars

\* C9: for an InferredMeasure with n distinct levels the result is an n-by-n grid
\* aligned with the meshgrid of the levels, zz[i][j] being the score of the pair
\* (xx[i][j], yy[i][j]), self-pairs included, and zz[i][j] = zz[j][i] for all i, j.
C9_GridAlignedSymmetric ==
    (pc = "done" /\ args.fn = "discrimination_combinations") =>
        LET n == Len(args.levels)
            iv == args.infered_values
        IN  /\ Len(ret.zz) = n
            /\ \A i \in 1 .. n :
                   /\ Len(ret.zz[i]) = n
                   /\ \A j \in 1 .. n :
                          /\ ret.xx[i][j] = args.levels[j]
                          /\ ret.yy[i][j] = args.levels[i]
                          /\ ret.zz[i][j] = discriminate(iv[ret.xx[i][j]], iv[ret.yy[i][j]],
                                                         ret.xx[i][j], ret.yy[i][j])
                          /\ ret.zz[i][j] = ret.zz[j][i]

C9_Witness ==
    /\ pc = "done"
    /\ args.fn = "discrimination_combinations"
    /\ args.levels = <<1, 0>>
    /\ args.infered_values[0] = <<Num(0, 1)>>
    /\ args.infered_values[1] = <<Num(2, 1)>>
    /\ ret.zz = <<<<Num(1, 2), Num(1, 1)>>, <<Num(1, 1), Num(1, 2)>>>>

\* -------------------------------------------------------------- the Model
\* The collaborator the drivers are given: store/restore snapshot and roll back
\* all of its state (stimulus amplitude A, frequency f, simulated time t and
\* the recorded spike trains); run advances time and records spikes.
t_max == 10

NewModel(N) ==
    [state |-> [t |-> 0,
                A |-> [n \in 1 .. N |-> 0],
                f |-> [n \in 1 .. N |-> 0],
                spike_train |-> [n \in 1 .. N |-> <<>>]],
     stored |-> <<>>,
     N |-> N]

model_store(m) == [m EXCEPT !.stored = <<m.state>>]
model_restore(m) == [m EXCEPT !.state = m.stored[1]]
model_set_stimulus_current(m, value) == [m EXCEPT !.state.A = value]
model_set_f(m, value) == [m EXCEPT !.state.f = value]

\* the spikes one run can produce in one unit, relative to the start of the run
RunTrains == {<<>>, <<0, 2, 8>>}

\* run(t_max): new spikes are recorded after those already in the monitor
model_run(m, new) ==
    [m EXCEPT !.state.t = @ + t_max,
              !.state.spike_train =
                  [n \in 1 .. m.N |->
                      @[n] \o [k \in 1 .. Len(new[n]) |-> m.state.t + new[n][k]]]]

\* ------------------------------------------------------------ infer_amplitude
infer_amplitude_isis(spike_times) == Len(diff(spike_times))

\* return len(spike_times)
infer_amplitude(spike_times) == Len(spike_times)

\* ------------------------------------------------------------- sweep drivers
f0_default == 100
f1_default == 600
a0_default == 50
a1_default == 100

\* np.random.uniform(lo, hi, N): one value of [lo, hi) per unit
uniform(lo, hi, N) == [1 .. N -> {lo, hi - 1}]

Amplitude == "evaluate_amplitude_discrimination"
Frequency == "evaluate_frequency_discrimination"

DictSet(dict, key, value) ==
    [k \in DOMAIN dict \cup {key} |-> IF k = key THEN value ELSE dict[k]]

Call(name) == [hist EXCEPT !.calls = Append(@, name)]

SweepArgs ==
    [fn : {Amplitude}, x0 : 0 .. 1, x1 : 0 .. SweepMax, res : 1 .. 2,
     t1 : {None}, t2 : {None}, prom : {None}]
    \cup
    [fn : {Frequency}, x0 : 0 .. 1, x1 : 0 .. SweepMax, res : 1 .. 2,
     t1 : {None, Num(1, 1)}, t2 : {None, Num(1, 1)}, prom : {None, Num(1, 10)}]

InitSweep ==
    /\ pc = "start"
    /\ args \in SweepArgs
    /\ ret = None
    /\ model = NewModel(NeuronsN)
    /\ locals = [trial |-> <<>>, i |-> 1, spike_times |-> <<>>, infered |-> <<>>]
    /\ hist = [calls |-> <<>>, runs |-> <<>>]

\* lines 124-129 and 164-169: the grid, model.store('initial'), the placeholders
Start ==
    /\ pc = "start"
    /\ model' = model_store(model)
    /\ locals' = [trial |-> create_param_range(args.x0, args.x1, args.res), i |-> 1,
                  spike_times |-> <<>>, infered |-> <<>>]
    /\ hist' = Call("store")
    /\ pc' = "loop"
    /\ UNCHANGED <<args, ret>>

RestoreSkipped ==
    /\ pc = "loop"
    /\ locals.i <= Len(locals.trial)
    /\ pc' = "restored"
    /\ UNCHANGED <<args, ret, model, locals, hist>>

\* lines 131-132 and 171-172: the next grid value, model.restore('initial')
Restore ==
    /\ pc = "loop"
    /\ locals.i <= Len(locals.trial)
    /\ model' = model_restore(model)
    /\ hist' = Call("restore")
    /\ pc' = "restored"
    /\ UNCHANGED <<args, ret, locals>>

\* line 133: model.set_stimulus_current(amp * unit)
SetAmplitudeSwept ==
    /\ pc = "restored"
    /\ args.fn = Amplitude
    /\ model' = model_set_stimulus_current(model,
                     [n \in 1 .. model.N |-> locals.trial[locals.i]])
    /\ hist' = Call("set_stimulus_current")
    /\ pc' = "swept"
    /\ UNCHANGED <<args, ret, locals>>

\* line 135: model.f = np.random.uniform(f0, f1, model.neurons.N) * Hz
SetFrequencyNuisance ==
    /\ pc = "swept"
    /\ args.fn = Amplitude
    /\ \E draw \in uniform(f0_default, f1_default, model.N) :
          model' = model_set_f(model, draw)
    /\ hist' = Call("f")
    /\ pc' = "ready"
    /\ UNCHANGED <<args, ret, locals>>

\* line 174: model.f = freq * Hz
SetFrequencySwept ==
    /\ pc = "restored"
    /\ args.fn = Frequency
    /\ model' = model_set_f(model, [n \in 1 .. model.N |-> locals.trial[locals.i]])
    /\ hist' = Call("f")
    /\ pc' = "swept"
    /\ UNCHANGED <<args, ret, locals>>

\* line 175: model.set_stimulus_current(np.random.uniform(a0, a1, model.neurons.N) * unit)
SetAmplitudeNuisance ==
    /\ pc = "swept"
    /\ args.fn = Frequency
    /\ \E draw \in uniform(a0_default, a1_default, model.N) :
          model' = model_set_stimulus_current(model, draw)
    /\ hist' = Call("set_stimulus_current")
    /\ pc' = "ready"
    /\ UNCHANGED <<args, ret, locals>>

\* lines 137 and 177: model.run(t_max, report=None)
Run ==
    /\ pc = "ready"
    /\ \E new \in [1 .. model.N -> RunTrains] :
          /\ model' = model_run(model, new)
          /\ hist' = [calls |-> Append(hist.calls, "run"),
                      runs |-> Append(hist.runs,
                                  [value |-> locals.trial[locals.i],
                                   t |-> model.state.t,
                                   recorded |-> model.state.spike_train,
                                   swept |-> IF args.fn = Amplitude THEN model.state.A
                                             ELSE model.state.f,
                                   trains |-> new])]
    /\ pc' = "ran"
    /\ UNCHANGED <<args, ret, locals>>

\* lines 138-139: spike_times[amp] = model.spike_train and the spike counts
RecordAmplitude ==
    /\ pc = "ran"
    /\ args.fn = Amplitude
    /\ LET key == locals.trial[locals.i]
           trains == model.state.spike_train
       IN  locals' = [locals EXCEPT
                         !.spike_times = DictSet(@, key, trains),
                         !.infered = DictSet(@, key,
                             [n \in 1 .. Len(trains) |-> infer_amplitude(trains[n])]),
                         !.i = @ + 1]
    /\ pc' = "loop"
    /\ UNCHANGED <<args, ret, model, hist>>

\* lines 178-184: spike_times[freq] = model.spike_train and, if t1 is not None,
\* the inferred frequencies
RecordFrequency ==
    /\ pc = "ran"
    /\ args.fn = Frequency
    /\ LET key == locals.trial[locals.i]
           trains == model.state.spike_train
       IN  locals' = [locals EXCEPT
                         !.spike_times = DictSet(@, key, trains),
                         !.infered =
                             IF args.t1 # None
                             THEN DictSet(@, key,
                                      [n \in 1 .. Len(trains) |->
                                          infer_frequency(trains[n], args.t1, args.t2, 1,
                                                          args.prom, 1)])
                             ELSE @,
                         !.i = @ + 1]
    /\ pc' = "loop"
    /\ UNCHANGED <<args, ret, model, hist>>

\* lines 141 and 185: return spike_times, infered
Return ==
    /\ pc = "loop"
    /\ locals.i > Len(locals.trial)
    /\ ret' = [spike_times |-> locals.spike_times, infered |-> locals.infered]
    /\ pc' = "done"
    /\ UNCHANGED <<args, model, locals, hist>>

NextSweep ==
    \/ Start
    \/ Restore
    \/ SetAmplitudeSwept
    \/ SetFrequencyNuisance
    \/ SetFrequencySwept
    \/ SetAmplitudeNuisance
    \/ Run
    \/ RecordAmplitude
    \/ RecordFrequency
    \/ Return

SpecSweep == InitSweep /\ [][NextSweep]_vars

\* ------------------------------------------------- properties of the drivers
GridValues == {locals.trial[k] : k \in 1 .. Len(locals.trial)}

CallPattern ==
    IF args.fn = Amplitude
    THEN <<"restore", "set_stimulus_current", "f", "run">>
    ELSE <<"restore", "f", "set_stimulus_current", "run">>

\* C6: in both drivers the initial state is stored exactly once, before any
\* restore or run; then, for each grid value in grid order, the driver calls
\* restore('initial'), sets the swept and the nuisance parameter, and calls run
\* exactly once, so that every run starts from the stored initial state.
C6_StoreOnceRestoreBeforeEachRun ==
    /\ pc # "start" => (Len(hist.calls) >= 1 /\ hist.calls[1] = "store")
    /\ \A k \in 2 .. Len(hist.calls) : hist.calls[k] = CallPattern[((k - 2) % 4) + 1]
    /\ \A k \in 1 .. Len(hist.runs) :
          /\ hist.runs[k].value = locals.trial[k]
          /\ hist.runs[k].t = model.stored[1].t
          /\ hist.runs[k].recorded = model.stored[1].spike_train
          /\ \A n \in 1 .. model.N : hist.runs[k].swept[n] = locals.trial[k]
    /\ pc = "done" =>
          /\ Len(hist.runs) = Len(locals.trial)
          /\ Len(hist.calls) = 1 + 4 * Len(locals.trial)

C6_Witness ==
    /\ pc = "done"
    /\ args.fn = Frequency
    /\ Len(hist.runs) = 2
    /\ hist.runs[1].trains[1] = <<0, 2, 8>>
    /\ hist.runs[2].t = 0

\* C7: evaluate_frequency_discrimination performs inference only if t1, t2 and
\* prom are all supplied; if any of them is None the returned InferredMeasure is
\* empty, while TrialResult has an entry for every grid value.
C7_NoInferenceUnlessAllSupplied ==
    (/\ pc = "done"
     /\ args.fn = Frequency
     /\ (args.t1 = None \/ args.t2 = None \/ args.prom = None))
        => /\ DOMAIN ret.infered = {}
           /\ DOMAIN ret.spike_times = GridValues

\* C10: when evaluate_amplitude_discrimination returns, the keys of TrialResult
\* and of InferredMeasure are the grid values, and InferredMeasure[v] holds one
\* entry per spike train of the run made with amplitude v, each the number of
\* spikes that run produced in that train.
C10_CountsOfOwnRun ==
    (pc = "done" /\ args.fn = Amplitude) =>
        /\ DOMAIN ret.spike_times = GridValues
        /\ DOMAIN ret.infered = GridValues
        /\ \A k \in 1 .. Len(locals.trial) :
              /\ hist.runs[k].value = locals.trial[k]
              /\ Len(ret.spike_times[locals.trial[k]]) = model.N
              /\ ret.infered[locals.trial[k]]
                     = [n \in 1 .. model.N |-> Len(hist.runs[k].trains[n])]

C10_Witness ==
    /\ pc = "done"
    /\ args.fn = Amplitude
    /\ Len(locals.trial) = 2
    /\ ret.infered[locals.trial[1]] = <<3, 0>>
    /\ ret.infered[locals.trial[2]] = <<0, 3>>

====
